---- MODULE Spec2Model ----
(***************************************************************************)
(* The research orchestration engine of Ariadne:                           *)
(*   backend/services/workflow_service.py  (WorkflowService)               *)
(*   backend/services/memory_service.py    (MemoryService)                 *)
(*   backend/core/registry.py              (PluginRegistry)                *)
(*                                                                         *)
(* A Python str is a sequence of one-character strings, so that lower(),   *)
(* split() and the substring test `x in s` are computed, not assumed.      *)
(* Step ids, status words and messages are atoms (TLA+ strings).           *)
(*                                                                         *)
(* The service runs on one asyncio event loop: a coroutine runs without    *)
(* interruption up to an await that really suspends.  The only such await  *)
(* of execute_research_plan is the call of a capability's execute(); the   *)
(* coroutines of MemoryService contain no suspending await.  An action is  *)
(* therefore one uninterrupted segment of a handler.                       *)
(***************************************************************************)
EXTENDS Integers, Sequences, FiniteSets, TLC

(***************************************************************************)
(* Bounds of the model.                                                    *)
(***************************************************************************)
MaxPlans == 1      \* create_research_plan calls (workflow objects allocated)
MaxStored == 2     \* the same, where plan ids are drawn again and again
MaxModules == 2    \* modules of a package handed to discover_plugins
MaxStores == 2     \* store_context calls made on a MemoryService
MaxRuns == 2       \* execute_research_plan calls that pass the two guards
MaxRequests == 2   \* requests handled by JWTMiddleware
MaxSteps == 3      \* steps of a plan handed to the executor with a step of unknown type
MaxWords == 2      \* words of a query drawn for the planner alone

(***************************************************************************)
(* Python strings.                                                         *)
(***************************************************************************)
UpperCase == <<"A", "B", "C", "D", "E", "F", "G", "H", "I", "J", "K", "L", "M",
               "N", "O", "P", "Q", "R", "S", "T", "U", "V", "W", "X", "Y", "Z">>

LowerCase == <<"a", "b", "c", "d", "e", "f", "g", "h", "i", "j", "k", "l", "m",
               "n", "o", "p", "q", "r", "s", "t", "u", "v", "w", "x", "y", "z">>

\* str.lower() on one character
LowerChar(c) ==
    IF \E k \in 1..Len(UpperCase) : UpperCase[k] = c
    THEN LowerCase[CHOOSE k \in 1..Len(UpperCase) : UpperCase[k] = c]
    ELSE c

\* str.lower()
StrLower(s) == [k \in 1..Len(s) |-> LowerChar(s[k])]

\* the substring test `needle in hay`
StrIn(needle, hay) ==
    \E k \in 0..(Len(hay) - Len(needle)) : SubSeq(hay, k + 1, k + Len(needle)) = needle

\* any(word in text for word in words)
AnyWordIn(words, text) == \E k \in 1..Len(words) : StrIn(words[k], text)

(***************************************************************************)
(* The planner: _analyze_query_and_create_plan.                            *)
(***************************************************************************)
SearchWords ==
    << <<"w", "h", "a", "t">>, <<"h", "o", "w">>, <<"w", "h", "y">>,
       <<"w", "h", "e", "n">>, <<"w", "h", "e", "r", "e">>, <<"w", "h", "o">> >>

DocumentWords ==
    << <<"d", "o", "c", "u", "m", "e", "n", "t">>, <<"p", "a", "p", "e", "r">>,
       <<"a", "r", "t", "i", "c", "l", "e">>, <<"s", "t", "u", "d", "y">>,
       <<"r", "e", "s", "e", "a", "r", "c", "h">> >>

WebSearchStep ==
    [id |-> "web_search", type |-> "search", depends_on |-> <<>>,
     tool_required |-> "web_search"]

DocumentAnalysisStep ==
    [id |-> "document_analysis", type |-> "analysis", depends_on |-> <<"web_search">>,
     tool_required |-> "document_ingestion"]

ContextRetrievalStep ==
    [id |-> "context_retrieval", type |-> "retrieval", depends_on |-> <<>>,
     tool_required |-> "memory_service"]

SynthesisStep ==
    [id |-> "synthesis", type |-> "synthesis",
     depends_on |-> <<"web_search", "document_analysis", "context_retrieval">>,
     tool_required |-> "research_service"]

\* the planner without the lower() of line 102
analyze_query_as_typed(query) ==
    LET search == IF AnyWordIn(SearchWords, query) THEN <<WebSearchStep>> ELSE <<>>
        analysis == IF AnyWordIn(DocumentWords, query)
                    THEN <<DocumentAnalysisStep>> ELSE <<>>
    IN  search \o analysis \o <<ContextRetrievalStep, SynthesisStep>>

analyze_query_and_create_plan(query) ==
    LET query_lower == StrLower(query)
        search == IF AnyWordIn(SearchWords, query_lower) THEN <<WebSearchStep>> ELSE <<>>
        analysis == IF AnyWordIn(DocumentWords, query_lower)
                    THEN <<DocumentAnalysisStep>> ELSE <<>>
    IN  search \o analysis \o <<ContextRetrievalStep, SynthesisStep>>

(***************************************************************************)
(* Inputs.                                                                 *)
(***************************************************************************)
Users == {"u1", "u2"}

\* plan_id = "plan_" + uuid4().hex[:8]: a draw from a finite space, which the
\* code does not compare with the ids already stored
PlanIdSpace == {"plan_0a1b2c3d", "plan_4e5f6a7b"}

Q_quantum ==
    <<"W", "h", "a", "t", " ", "i", "s", " ", "q", "u", "a", "n", "t", "u", "m", " ",
      "c", "o", "m", "p", "u", "t", "i", "n", "g", "?">>

Q_summarize ==
    <<"S", "u", "m", "m", "a", "r", "i", "z", "e", " ", "t", "h", "i", "s", " ",
      "r", "e", "s", "e", "a", "r", "c", "h", " ", "p", "a", "p", "e", "r">>

Q_hello == <<"h", "e", "l", "l", "o">>

Q_both == <<"W", "h", "y", " ", "t", "h", "i", "s", " ", "p", "a", "p", "e", "r">>

Queries == {Q_quantum, Q_summarize, Q_hello, Q_both}

(***************************************************************************)
(* State.                                                                  *)
(***************************************************************************)
VARIABLES
    registry_tools,     \* PluginRegistry._tools: name -> the registered capability
    tool_metadata,      \* PluginRegistry._tool_metadata: name -> metadata
    last_call,          \* the registry call made last, where calls are recorded
    workflows,          \* the workflow_state dicts, in order of allocation
    active_workflows,   \* WorkflowService.active_workflows: plan_id -> dict
    runs,               \* the calls of execute_research_plan past their guards
    memory_nodes,       \* the engine's MemoryService: the context nodes of its
                        \* memory_graph["nodes"]
    memory_graph,       \* a MemoryService of its own: memory_graph, all of it
    store_calls,        \* the store_context calls made on that MemoryService
    last_retrieval,     \* the retrieve_context call made last on it
    http_log            \* the requests JWTMiddleware has handled, and what it did

registry_vars == <<registry_tools, tool_metadata, last_call>>

engine_vars == <<workflows, active_workflows, runs, memory_nodes>>

memory_vars == <<memory_graph, store_calls, last_retrieval>>

vars == <<registry_tools, tool_metadata, last_call, workflows, active_workflows, runs,
          memory_nodes, memory_graph, store_calls, last_retrieval, http_log>>

EmptyMap == [x \in {} |-> 0]

\* no registry call recorded
NoCall ==
    [op |-> "None", arg |-> [name |-> "None"], metadata |-> "None", raised |-> "",
     warned |-> FALSE, returned |-> "None"]

\* no retrieve_context call recorded
NoRetrieval == [query |-> <<>>, user_id |-> "None", max_results |-> 0, returned |-> <<>>]

\* MemoryService.__init__
EmptyGraph == [nodes |-> EmptyMap, concepts |-> EmptyMap, edges |-> EmptyMap]

Init ==
    /\ registry_tools = EmptyMap
    /\ tool_metadata = EmptyMap
    /\ last_call = NoCall
    /\ workflows = <<>>
    /\ active_workflows = EmptyMap
    /\ runs = <<>>
    /\ memory_nodes = EmptyMap
    /\ memory_graph = EmptyGraph
    /\ store_calls = <<>>
    /\ last_retrieval = NoRetrieval
    /\ http_log = <<>>

(***************************************************************************)
(* create_research_plan                                                    *)
(***************************************************************************)
workflow_state(plan_id, query, user_id) ==
    [plan_id |-> plan_id, query |-> query, user_id |-> user_id,
     status |-> "planning", steps |-> analyze_query_and_create_plan(query),
     current_step |-> 0, results |-> EmptyMap, errors |-> <<>>]

create_research_plan(query, user_id, plan_id) ==
    /\ workflows' = Append(workflows, workflow_state(plan_id, query, user_id))
    /\ active_workflows' = (plan_id :> (Len(workflows) + 1)) @@ active_workflows
    /\ UNCHANGED <<runs, memory_nodes>>
    /\ UNCHANGED <<registry_vars, memory_vars, http_log>>

(***************************************************************************)
(* PluginRegistry: register_tool, unregister_tool, get_tool.               *)
(***************************************************************************)
ToolNames == {"web_search", "document_ingestion"}

\* the ToolInterface instances at hand: plugins.tools.web_search.WebSearchTool
\* and plugins.tools.document_ingestion.DocumentIngestionTool, or any other
\* implementation under the same name
Tools == [name : ToolNames, version : {"1.0.0"}]

\* self._tools.get(name)
get_tool(reg, name) == IF name \in DOMAIN reg THEN reg[name] ELSE [name |-> "None"]

\* list(self._tools.keys()), as a set
list_tools(reg) == DOMAIN reg

\* further ToolInterface instances: another implementation under the name
\* web_search, and a capability of a third name
WebSearchTool == [name |-> "web_search", version |-> "1.0.0"]

DocumentIngestionTool == [name |-> "document_ingestion", version |-> "1.0.0"]

WebSearchTool2 == [name |-> "web_search", version |-> "2.0.0"]

CalculatorTool == [name |-> "calculator", version |-> "1.0.0"]

AllTools == Tools \cup {WebSearchTool2, CalculatorTool}

\* objects that are not ToolInterface instances: a LearningModelInterface
\* instance, which has a name and a version too
NotTools == {[name |-> "web_search", version |-> "1.0.0", model_type |-> "classifier"]}

\* isinstance(tool, ToolInterface)
IsToolInterface(obj) == obj \in AllTools

\* the metadata argument: None (the default) or a dict
Metadata == {"None", "{'origin': 'manual'}"}

\* metadata or {}
MetadataOrEmpty(metadata) == IF metadata = "None" THEN "{}" ELSE metadata

\* The registry as the methods below take and leave it: the two dicts, the
\* exception the call raised ("" for none), and whether it logged the warning
\* of line 27.
Registry ==
    [tools |-> registry_tools, metadata |-> tool_metadata, raised |-> "", warned |-> FALSE]

\* register_tool that keeps the entry a name already has
register_tool_keeping_first(R, tool, metadata) ==
    IF ~IsToolInterface(tool)
    THEN [R EXCEPT !.raised = "TypeError"]
    ELSE IF tool.name \in DOMAIN R.tools
    THEN [R EXCEPT !.warned = TRUE]
    ELSE [R EXCEPT !.tools = (tool.name :> tool) @@ @,
                   !.metadata = (tool.name :> MetadataOrEmpty(metadata)) @@ @]

\* register_tool that files the tool under its version
register_tool_under_version(R, tool, metadata) ==
    IF ~IsToolInterface(tool)
    THEN [R EXCEPT !.raised = "TypeError"]
    ELSE [R EXCEPT !.tools = (tool.version :> tool) @@ @,
                   !.metadata = (tool.version :> MetadataOrEmpty(metadata)) @@ @,
                   !.warned = @ \/ tool.version \in DOMAIN R.tools]

\* register_tool without line 30
register_tool_without_metadata(R, tool, metadata) ==
    IF ~IsToolInterface(tool)
    THEN [R EXCEPT !.raised = "TypeError"]
    ELSE [R EXCEPT !.tools = (tool.name :> tool) @@ @,
                   !.warned = @ \/ tool.name \in DOMAIN R.tools]

\* PluginRegistry.register_tool on registry R
register_tool_into(R, tool, metadata) ==
    IF ~IsToolInterface(tool)
    THEN [R EXCEPT !.raised = "TypeError"]
    ELSE [R EXCEPT !.tools = (tool.name :> tool) @@ @,
                   !.metadata = (tool.name :> MetadataOrEmpty(metadata)) @@ @,
                   !.warned = @ \/ tool.name \in DOMAIN R.tools]

\* PluginRegistry.unregister_tool on registry R
unregister_tool_from(R, name) ==
    IF name \in DOMAIN R.tools
    THEN [R EXCEPT !.tools = [n \in DOMAIN R.tools \ {name} |-> R.tools[n]],
                   !.metadata = [n \in DOMAIN R.metadata \ {name} |-> R.metadata[n]]]
    ELSE R

\* PluginRegistry.clear_all on registry R (the learning models are not kept)
clear_all_of(R) == [R EXCEPT !.tools = EmptyMap, !.metadata = EmptyMap]

\* the engine's registry: a capability is registered, or taken away, while
\* plans exist and run
register_tool(tool, metadata) ==
    LET R == register_tool_into(Registry, tool, metadata)
    IN  /\ R.raised = ""
        /\ registry_tools' = R.tools
        /\ tool_metadata' = R.metadata
        /\ UNCHANGED <<last_call, engine_vars, memory_vars, http_log>>

unregister_tool(name) ==
    LET R == unregister_tool_from(Registry, name)
    IN  /\ name \in DOMAIN registry_tools
        /\ registry_tools' = R.tools
        /\ tool_metadata' = R.metadata
        /\ UNCHANGED <<last_call, engine_vars, memory_vars, http_log>>

\* What one call of a capability's execute() does once awaited: it returns
\* data json.dumps accepts ("ok"), returns data json.dumps rejects ("nonjson":
\* ToolOutput.data is typed Any), raises ("raises"), or never returns ("hangs").
Behaviours == {"ok", "nonjson", "raises", "hangs"}

(***************************************************************************)
(* MemoryService.store_context, as far as the engine uses it: the context  *)
(* node, keyed by the clock reading "context_<timestamp>".                 *)
(***************************************************************************)
\* the readings the clock can give: time does not run backwards, and two
\* readings may be equal
Stamps(mem) ==
    LET last == IF DOMAIN mem = {} THEN 0
                ELSE CHOOSE m \in DOMAIN mem : \A n \in DOMAIN mem : n <= m
    IN  {last, last + 1} \ {0}

\* lines 28-46: the context node, which keeps the query, the content and the
\* owner; context_data["workflow_id"] is not read
store_context(mem, query, context_data, user_id, t) ==
    (t :> [type |-> "research_context", query |-> query,
           content |-> context_data.content, user_id |-> user_id]) @@ mem

(***************************************************************************)
(* The executor: execute_research_plan and the step handlers.              *)
(***************************************************************************)
\* a step result: data is result["result"] by what json.dumps makes of it, and
\* sources is result["result"]["sources"], which only a synthesis result has
StepResult(status, detail, tool_used, data) ==
    [status |-> status, detail |-> detail, tool_used |-> tool_used, data |-> data,
     sources |-> <<>>]

\* workflow["results"].get(step_id, {}).get("status")
ResultStatus(W, step_id) ==
    IF step_id \in DOMAIN W.results THEN W.results[step_id].status ELSE "None"

\* workflow["results"].get(step_id, {}).get("result", {}), by what json.dumps
\* makes of it: "none" is the empty dict
ResultData(W, step_id) ==
    IF step_id \in DOMAIN W.results THEN W.results[step_id].data ELSE "none"

check_dependencies(step, W) ==
    \A k \in 1..Len(step.depends_on) : ResultStatus(W, step.depends_on[k]) = "completed"

\* the registry name a step handler looks up
HandlerTool(step) ==
    IF step.type = "search" THEN "web_search" ELSE "document_ingestion"

\* the handler reaches `await tool.execute(tool_input)`
CallsTool(step, W, reg) ==
    /\ step.type \in {"search", "analysis"}
    /\ check_dependencies(step, W)
    /\ get_tool(reg, HandlerTool(step)).name # "None"

execute_synthesis_step(W) ==
    [StepResult("completed", "", "workflow_synthesis",
                IF "nonjson" \in {ResultData(W, "web_search"),
                                  ResultData(W, "document_analysis")}
                THEN "nonjson" ELSE "json")
     EXCEPT !.sources = <<ResultData(W, "web_search"), ResultData(W, "document_analysis")>>]

\* _execute_workflow_step for a step that returns without awaiting a capability
execute_workflow_step(step, W, reg) ==
    IF step.type \in {"search", "analysis"}
    THEN IF ~check_dependencies(step, W)
         THEN StepResult("skipped", "Dependencies not met", "", "none")
         ELSE StepResult("error",
                         IF step.type = "search" THEN "Web search tool not available"
                         ELSE "Document ingestion tool not available", "", "none")
    ELSE IF step.type = "retrieval"
    THEN StepResult("completed", "", "memory_service", "json")
    ELSE IF step.type = "synthesis"
    THEN execute_synthesis_step(W)
    ELSE StepResult("error", "Unknown step type", "", "none")

\* the handler that takes an exception of the capability for a result
tool_result_swallowing_faults(step, behaviour) ==
    StepResult("completed", "", HandlerTool(step),
               IF behaviour = "nonjson" THEN "nonjson"
               ELSE IF behaviour = "raises" THEN "none" ELSE "json")

\* what the awaited capability hands back to the handler
tool_result(step, behaviour) ==
    IF behaviour = "raises"
    THEN StepResult("error", "Step execution failed", "", "none")
    ELSE StepResult("completed", "", HandlerTool(step),
                    IF behaviour = "nonjson" THEN "nonjson" ELSE "json")

\* _store_workflow_results and lines 84-94: the end of a run
finish(W, mem, t, log) ==
    IF W.status # "failed"
    THEN LET synthesis_result == ResultData(W, "synthesis")
             done == [W EXCEPT !.status = "completed"]
         IN  IF synthesis_result = "none"
             THEN [pc |-> "done", wf |-> done, i |-> 0, tool |-> "None", mem |-> mem,
                   log |-> log]
             ELSE IF synthesis_result = "nonjson"
             THEN [pc |-> "done",
                   wf |-> [done EXCEPT !.status = "error",
                                       !.errors = Append(@, <<"", "Workflow execution failed">>)],
                   i |-> 0, tool |-> "None", mem |-> mem, log |-> log]
             ELSE [pc |-> "done", wf |-> done, i |-> 0, tool |-> "None",
                   mem |-> store_context(mem, W.query,
                                         [content |-> W.results["synthesis"].sources,
                                          workflow_id |-> W.plan_id],
                                         W.user_id, t),
                   log |-> log]
    ELSE [pc |-> "done", wf |-> W, i |-> 0, tool |-> "None", mem |-> mem, log |-> log]

RECURSIVE run_steps(_, _, _, _, _, _)

\* after_step without the break of line 78
after_step_without_break(W, i, res, reg, mem, t, log) ==
    LET step == W.steps[i]
        W2 == [W EXCEPT !.results = (step.id :> res) @@ @]
        log2 == [log EXCEPT !.written = Append(@, step.id),
                            !.statuses = Append(@, res.status)]
    IN  IF res.status = "error"
        THEN run_steps([W2 EXCEPT !.errors = Append(@, <<step.id, res.detail>>),
                                  !.status = "failed"], i + 1, reg, mem, t, log2)
        ELSE run_steps(W2, i + 1, reg, mem, t, log2)

\* lines 72-78 for step i with result res, then the rest of the loop
after_step(W, i, res, reg, mem, t, log) ==
    LET step == W.steps[i]
        W2 == [W EXCEPT !.results = (step.id :> res) @@ @]
        log2 == [log EXCEPT !.written = Append(@, step.id),
                            !.statuses = Append(@, res.status)]
    IN  IF res.status = "error"
        THEN finish([W2 EXCEPT !.errors = Append(@, <<step.id, res.detail>>),
                               !.status = "failed"], mem, t, log2)
        ELSE run_steps(W2, i + 1, reg, mem, t, log2)

\* the loop of lines 68-82 from step i (1-based), up to the await of a
\* capability or to the end of the run
run_steps(W, i, reg, mem, t, log) ==
    IF i > Len(W.steps)
    THEN finish(W, mem, t, log)
    ELSE LET step == W.steps[i]
             W1 == [W EXCEPT !.current_step = i - 1]
             log1 == [log EXCEPT !.visited = Append(@, step.id),
                                 !.absent = IF /\ step.type \in {"search", "analysis"}
                                               /\ check_dependencies(step, W)
                                               /\ get_tool(reg, HandlerTool(step)).name = "None"
                                            THEN @ \cup {step.id} ELSE @,
                                 !.unmet = IF ~check_dependencies(step, W)
                                           THEN @ \cup {step.id} ELSE @]
         IN  IF CallsTool(step, W1, reg)
             THEN [pc |-> "awaiting", wf |-> W1, i |-> i,
                   tool |-> get_tool(reg, HandlerTool(step)), mem |-> mem,
                   log |-> [log1 EXCEPT !.called = @ \cup {step.id}]]
             ELSE after_step(W1, i, execute_workflow_step(step, W1, reg), reg, mem, t, log1)

\* a call of execute_research_plan: what the run holds between its segments
\* (wf, user_id, pc, i, tool), what the capability it awaits will do
\* (behaviour), and the record of what it did (visited: the steps it reached,
\* in order; written: the steps whose result it stored, and statuses: the
\* status of each of these results; unmet: the steps it reached while a
\* dependency of theirs had no completed result; called: the steps whose
\* capability it awaited; absent: the steps
\* whose capability the registry did not have)
NewLog ==
    [visited |-> <<>>, written |-> <<>>, statuses |-> <<>>, unmet |-> {}, called |-> {},
     absent |-> {}]

RunOf(o, user_id, R, behaviour) ==
    [wf |-> o, user_id |-> user_id, pc |-> R.pc, i |-> R.i, tool |-> R.tool,
     behaviour |-> IF R.pc = "awaiting" THEN behaviour ELSE "None",
     visited |-> R.log.visited, written |-> R.log.written, statuses |-> R.log.statuses,
     unmet |-> R.log.unmet, called |-> R.log.called, absent |-> R.log.absent]

\* lines 54-59: what execute_research_plan raises before it touches anything
\* ("" when it goes on)
execute_raises(plan_id, user_id) ==
    IF plan_id \notin DOMAIN active_workflows
    THEN [raised |-> "ValueError", message |-> "Plan not found"]
    ELSE IF workflows[active_workflows[plan_id]].user_id # user_id
    THEN [raised |-> "ValueError", message |-> "Unauthorized access to workflow"]
    ELSE [raised |-> "", message |-> ""]

\* execute_research_plan from its entry to its first await or its return
execute_research_plan(plan_id, user_id, t, behaviour) ==
    /\ execute_raises(plan_id, user_id).raised = ""
    /\ Len(runs) < MaxRuns
    /\ LET o == active_workflows[plan_id]
           R == run_steps([workflows[o] EXCEPT !.status = "executing"], 1,
                          registry_tools, memory_nodes, t, NewLog)
       IN  /\ workflows' = [workflows EXCEPT ![o] = R.wf]
           /\ memory_nodes' = R.mem
           /\ runs' = Append(runs, RunOf(o, user_id, R, behaviour))
           /\ UNCHANGED <<active_workflows, registry_vars, memory_vars, http_log>>

\* the awaited capability returns or raises, and the run goes on to its next
\* await or to its return
tool_returns(r, t, behaviour) ==
    /\ runs[r].pc = "awaiting"
    /\ runs[r].behaviour # "hangs"
    /\ LET o == runs[r].wf
           W == workflows[o]
           R == after_step(W, runs[r].i, tool_result(W.steps[runs[r].i], runs[r].behaviour),
                           registry_tools, memory_nodes, t,
                           [visited |-> runs[r].visited, written |-> runs[r].written,
                            statuses |-> runs[r].statuses, unmet |-> runs[r].unmet,
                            called |-> runs[r].called, absent |-> runs[r].absent])
       IN  /\ workflows' = [workflows EXCEPT ![o] = R.wf]
           /\ memory_nodes' = R.mem
           /\ runs' = [runs EXCEPT ![r] = RunOf(o, runs[r].user_id, R, behaviour)]
           /\ UNCHANGED <<active_workflows, registry_vars, memory_vars, http_log>>

(***************************************************************************)
(* get_workflow_status, get_workflow_results: they read and return, so     *)
(* each is the value it returns in the current state.                      *)
(***************************************************************************)
None == [kind |-> "None"]

create_execution_summary(W) ==
    [total_steps |-> Len(W.steps),
     completed_steps |-> Cardinality({s \in DOMAIN W.results : W.results[s].status = "completed"}),
     tools_used |-> {W.results[s].tool_used : s \in DOMAIN W.results} \ {""}]

get_workflow_status(plan_id, user_id) ==
    IF plan_id \notin DOMAIN active_workflows
    THEN None
    ELSE LET W == workflows[active_workflows[plan_id]]
         IN  IF W.user_id # user_id
             THEN None
             ELSE [kind |-> "status", plan_id |-> plan_id, query |-> W.query,
                   status |-> W.status,
                   progress |-> IF Len(W.steps) > 0
                                THEN <<W.current_step + 1, Len(W.steps)>> ELSE <<0, 1>>,
                   current_step |-> W.current_step, total_steps |-> Len(W.steps),
                   has_errors |-> Len(W.errors) > 0, error_count |-> Len(W.errors)]

\* get_workflow_results without the test of lines 335-336
get_workflow_results_of_anyone(plan_id, user_id) ==
    IF plan_id \notin DOMAIN active_workflows
    THEN None
    ELSE LET W == workflows[active_workflows[plan_id]]
         IN  [kind |-> "results", plan_id |-> plan_id, query |-> W.query,
              results |-> W.results, errors |-> W.errors, status |-> W.status,
              execution_summary |-> create_execution_summary(W)]

get_workflow_results(plan_id, user_id) ==
    IF plan_id \notin DOMAIN active_workflows
    THEN None
    ELSE LET W == workflows[active_workflows[plan_id]]
         IN  IF W.user_id # user_id
             THEN None
             ELSE [kind |-> "results", plan_id |-> plan_id, query |-> W.query,
                   results |-> W.results, errors |-> W.errors, status |-> W.status,
                   execution_summary |-> create_execution_summary(W)]

(***************************************************************************)
(* PluginRegistry.discover_plugins.  What importlib and pkgutil find under *)
(* a package name is the input: whether the package imports, its modules   *)
(* in the order of pkgutil.iter_modules (sorted by name), whether each     *)
(* module imports, and the ToolInterface subclasses each module holds in   *)
(* the order of dir(module), each with what its constructor does.          *)
(***************************************************************************)
DefaultExcludePatterns ==
    << <<"t", "e", "s", "t">>, <<"t", "e", "s", "t", "s">>,
       <<"_", "_", "p", "y", "c", "a", "c", "h", "e", "_", "_">> >>

\* any(pattern in name.lower() for pattern in exclude_patterns)
excluded(name, exclude_patterns) == AnyWordIn(exclude_patterns, StrLower(name))

RECURSIVE discover_classes(_, _)

RECURSIVE discover_modules(_, _, _)

\* the loop of lines 103-113 that gives up at the first constructor that raises
discover_classes_aborting(R, classes) ==
    IF classes = <<>>
    THEN R
    ELSE IF Head(classes).constructs
    THEN discover_classes([register_tool_into(R, Head(classes).tool, "None")
                              EXCEPT !.raised = ""], Tail(classes))
    ELSE [R EXCEPT !.raised = "Exception"]

\* lines 103-113: each class is constructed and registered inside its own
\* try, which catches what the constructor or register_tool raises
discover_classes(R, classes) ==
    IF classes = <<>>
    THEN R
    ELSE IF Head(classes).constructs
    THEN discover_classes([register_tool_into(R, Head(classes).tool, "None")
                              EXCEPT !.raised = ""], Tail(classes))
    ELSE discover_classes(R, Tail(classes))

\* lines 93-129: the loop over the modules
discover_modules(R, modules, exclude_patterns) ==
    IF modules = <<>>
    THEN R
    ELSE LET module == Head(modules)
         IN  IF excluded(module.name, exclude_patterns)
             THEN discover_modules(R, Tail(modules), exclude_patterns)
             ELSE IF ~module.imports
             THEN discover_modules(R, Tail(modules), exclude_patterns)
             ELSE LET R2 == discover_classes(R, module.classes)
                  IN  IF R2.raised # ""
                      THEN discover_modules([R2 EXCEPT !.raised = ""], Tail(modules),
                                            exclude_patterns)
                      ELSE discover_modules(R2, Tail(modules), exclude_patterns)

\* PluginRegistry.discover_plugins on registry R, with the default patterns
discover_plugins_into(R, package) ==
    IF ~package.importable
    THEN R
    ELSE discover_modules(R, package.modules, DefaultExcludePatterns)

\* the modules a package may hold, in the order of their names
ModuleNames ==
    << <<"d", "o", "c", "u", "m", "e", "n", "t", "_", "i", "n", "g", "e", "s", "t", "i", "o", "n">>,
       <<"t", "e", "s", "t", "_", "t", "o", "o", "l", "s">>,
       <<"t", "o", "o", "l", "b", "o", "x">>,
       <<"w", "e", "b", "_", "s", "e", "a", "r", "c", "h">> >>

\* the ToolInterface subclasses of each module
ModuleTools ==
    << <<DocumentIngestionTool>>, <<CalculatorTool>>, <<CalculatorTool, WebSearchTool2>>,
       <<WebSearchTool>> >>

\* module k as the import system may present it: it fails to import, or it
\* imports and each constructor works or raises
ModuleVariants(k) ==
    {[name |-> ModuleNames[k], imports |-> FALSE, classes |-> <<>>]} \cup
    {[name |-> ModuleNames[k], imports |-> TRUE,
      classes |-> [j \in 1..Len(ModuleTools[k]) |->
                      [tool |-> ModuleTools[k][j], constructs |-> f[j]]]] :
         f \in [1..Len(ModuleTools[k]) -> BOOLEAN]}

RECURSIVE ModuleLists(_, _)

\* the lists of at most n modules taken from modules k, k + 1, ... in order
ModuleLists(k, n) ==
    IF k > Len(ModuleNames) \/ n = 0
    THEN {<<>>}
    ELSE ModuleLists(k + 1, n) \cup
         {<<m>> \o rest : m \in ModuleVariants(k), rest \in ModuleLists(k + 1, n - 1)}

Packages ==
    {[importable |-> FALSE, modules |-> <<>>]} \cup
    {[importable |-> TRUE, modules |-> ms] : ms \in ModuleLists(1, MaxModules)}

(***************************************************************************)
(* The registry under its own callers: every call is recorded in last_call *)
(* with its argument, what it raised and what it returned.                 *)
(***************************************************************************)
Call(op, arg, metadata, R, returned) ==
    [op |-> op, arg |-> arg, metadata |-> metadata, raised |-> R.raised,
     warned |-> R.warned, returned |-> returned]

call_register_tool(obj, metadata) ==
    LET R == register_tool_into(Registry, obj, metadata)
    IN  /\ registry_tools' = R.tools
        /\ tool_metadata' = R.metadata
        /\ last_call' = Call("register", obj, metadata, R, "None")
        /\ UNCHANGED <<engine_vars, memory_vars, http_log>>

call_unregister_tool(name) ==
    LET R == unregister_tool_from(Registry, name)
    IN  /\ registry_tools' = R.tools
        /\ tool_metadata' = R.metadata
        /\ last_call' = Call("unregister", [name |-> name], "None", R,
                             IF name \in DOMAIN registry_tools THEN "True" ELSE "False")
        /\ UNCHANGED <<engine_vars, memory_vars, http_log>>

call_clear_all ==
    LET R == clear_all_of(Registry)
    IN  /\ registry_tools' = R.tools
        /\ tool_metadata' = R.metadata
        /\ last_call' = Call("clear", [name |-> "None"], "None", R, "None")
        /\ UNCHANGED <<engine_vars, memory_vars, http_log>>

call_discover_plugins(package) ==
    LET R == discover_plugins_into(Registry, package)
    IN  /\ registry_tools' = R.tools
        /\ tool_metadata' = R.metadata
        /\ last_call' = Call("discover", package, "None", R, "None")
        /\ UNCHANGED <<engine_vars, memory_vars, http_log>>

RegisteredNames == {"web_search", "document_ingestion", "calculator"}

RegNext ==
    \/ \E obj \in AllTools \cup NotTools, metadata \in Metadata :
           call_register_tool(obj, metadata)
    \/ \E name \in RegisteredNames : call_unregister_tool(name)
    \/ call_clear_all
    \/ \E package \in Packages : call_discover_plugins(package)

RegSpec == Init /\ [][RegNext]_vars

(***************************************************************************)
(* MemoryService, all of memory_graph: store_context with the concept      *)
(* nodes and the "mentions" edges it makes.  The one dict of nodes is kept *)
(* as two, the context nodes (ids "context_<timestamp>", by timestamp) and *)
(* the concept nodes (ids "concept_<name>"); the edges are kept by the     *)
(* pair of ids that makes up their id.                                     *)
(***************************************************************************)
MinConceptLength == 3

ConceptLimit == 10

StopWords ==
    {<<"t", "h", "e">>, <<"a">>, <<"a", "n">>, <<"a", "n", "d">>,
      <<"o", "r">>, <<"b", "u", "t">>, <<"i", "n">>, <<"o", "n">>,
      <<"a", "t">>, <<"t", "o">>, <<"f", "o", "r">>, <<"o", "f">>,
      <<"w", "i", "t", "h">>, <<"b", "y">>, <<"i", "s">>, <<"a", "r", "e">>,
      <<"w", "a", "s">>, <<"w", "e", "r", "e">>, <<"b", "e">>,
      <<"b", "e", "e", "n">>, <<"h", "a", "v", "e">>, <<"h", "a", "s">>,
      <<"h", "a", "d">>, <<"d", "o">>, <<"d", "o", "e", "s">>,
      <<"d", "i", "d">>, <<"w", "i", "l", "l">>, <<"w", "o", "u", "l", "d">>,
      <<"c", "o", "u", "l", "d">>, <<"s", "h", "o", "u", "l", "d">>}

RECURSIVE SplitFrom(_, _, _)

\* the words of s from position k on, word being the one under way
SplitFrom(s, k, word) ==
    IF k > Len(s)
    THEN IF word = <<>> THEN <<>> ELSE <<word>>
    ELSE IF s[k] = " "
    THEN (IF word = <<>> THEN <<>> ELSE <<word>>) \o SplitFrom(s, k + 1, <<>>)
    ELSE SplitFrom(s, k + 1, Append(word, s[k]))

\* str.split(), for texts whose only whitespace is the space
StrSplit(s) == SplitFrom(s, 1, <<>>)

\* the test of line 137 that lets the words of three characters through
IsConceptWord_keeping_short(word) == Len(word) >= MinConceptLength /\ word \notin StopWords

IsConceptWord(word) == Len(word) > MinConceptLength /\ word \notin StopWords

\* _extract_concepts: list(set(words))[:10] keeps all the words when there
\* are at most ten and any ten of them otherwise, so it is the set of the
\* results the call may give
extract_concepts(query, content) ==
    LET text == StrLower(query \o <<" ">> \o content)
        words == SelectSeq(StrSplit(text), IsConceptWord)
        unique == {words[k] : k \in 1..Len(words)}
    IN  IF Cardinality(unique) <= ConceptLimit
        THEN {unique}
        ELSE {S \in SUBSET unique : Cardinality(S) = ConceptLimit}

\* f"concept_{concept.lower().replace(' ', '_')}"
concept_id(concept) ==
    <<"c", "o", "n", "c", "e", "p", "t", "_">> \o
    [k \in 1..Len(concept) |-> IF StrLower(concept)[k] = " " THEN "_"
                               ELSE StrLower(concept)[k]]

\* lines 97-126 where the frequency of a known concept is left as it is
connect_one_without_increment(G, context_id, concept) ==
    LET id == concept_id(concept)
    IN  [G EXCEPT
           !.concepts = IF id \notin DOMAIN G.concepts
                        THEN (id :> [type |-> "concept", name |-> concept,
                                     category |-> "extracted", frequency |-> 1]) @@ @
                        ELSE @,
           !.edges = (<<context_id, id>> :>
                         [source |-> context_id, target |-> id, type |-> "mentions",
                          weight |-> 1]) @@ @]

\* lines 97-126 where a known concept counts twice
connect_one_counting_twice(G, context_id, concept) ==
    LET id == concept_id(concept)
    IN  [G EXCEPT
           !.concepts = IF id \notin DOMAIN G.concepts
                        THEN (id :> [type |-> "concept", name |-> concept,
                                     category |-> "extracted", frequency |-> 1]) @@ @
                        ELSE [@ EXCEPT ![id].frequency = @ + 2],
           !.edges = (<<context_id, id>> :>
                         [source |-> context_id, target |-> id, type |-> "mentions",
                          weight |-> 1]) @@ @]

\* lines 97-126: the body of the loop of _create_concept_connections
connect_one(G, context_id, concept) ==
    LET id == concept_id(concept)
    IN  [G EXCEPT
           !.concepts = IF id \notin DOMAIN G.concepts
                        THEN (id :> [type |-> "concept", name |-> concept,
                                     category |-> "extracted", frequency |-> 1]) @@ @
                        ELSE [@ EXCEPT ![id].frequency = @ + 1],
           !.edges = (<<context_id, id>> :>
                         [source |-> context_id, target |-> id, type |-> "mentions",
                          weight |-> 1]) @@ @]

RECURSIVE create_concept_connections(_, _, _)

\* _create_concept_connections, for the concepts _extract_concepts gave
create_concept_connections(G, context_id, concepts) ==
    IF concepts = {}
    THEN G
    ELSE LET concept == CHOOSE c \in concepts : TRUE
         IN  create_concept_connections(connect_one(G, context_id, concept), context_id,
                                        concepts \ {concept})

\* store_context on graph G, at clock reading t
store_context_in(G, query, context_data, user_id, t, concepts) ==
    create_concept_connections(
        [G EXCEPT !.nodes = store_context(@, query, context_data, user_id, t)], t, concepts)

\* The calls.  store_context has no await that suspends, so once a call runs
\* it runs to its end; calls made by different tasks of the event loop are
\* in flight together from their making (pending) to their running (done),
\* and run in any order.
MemQueries ==
    { <<"e", "x", "p", "e", "r", "i", "m", "e", "n", "t", " ", "r", "e", "s", "u", "l", "t", "s">>,
      <<"T", "h", "e", " ", "E", "x", "p", "e", "r", "i", "m", "e", "n", "t">>,
      <<"w", "i", "t", "h", " ", "d", "a", "t", "a">> }

MemContents ==
    { <<>>,
      <<"a", "n", " ", "e", "x", "p", "e", "r", "i", "m", "e", "n", "t", " ", "o", "n", " ",
        "d", "a", "t", "a">> }

call_store_context(query, content, user_id) ==
    /\ store_calls' = Append(store_calls,
                             [query |-> query, content |-> content, user_id |-> user_id,
                              pc |-> "pending", concepts |-> {}, context_id |-> 0,
                              order |-> 0])
    /\ UNCHANGED <<memory_graph, last_retrieval, registry_vars, engine_vars, http_log>>

run_store_context(k, t, concepts) ==
    /\ store_calls[k].pc = "pending"
    /\ memory_graph' = store_context_in(memory_graph, store_calls[k].query,
                                        [content |-> store_calls[k].content],
                                        store_calls[k].user_id, t, concepts)
    /\ store_calls' = [store_calls EXCEPT
                          ![k].pc = "done", ![k].concepts = concepts, ![k].context_id = t,
                          ![k].order = 1 + Cardinality({j \in 1..Len(store_calls) :
                                                           store_calls[j].pc = "done"})]
    /\ UNCHANGED <<last_retrieval, registry_vars, engine_vars, http_log>>

RECURSIVE relevance_score(_, _, _)

\* lines 70-75: 1 for a term found in the content, 2 for one found in the
\* stored query, over the terms as query.lower().split() lists them
relevance_score(query_terms, content, node_query) ==
    IF query_terms = <<>>
    THEN 0
    ELSE (IF StrIn(Head(query_terms), content) THEN 1 ELSE 0)
         + (IF StrIn(Head(query_terms), node_query) THEN 2 ELSE 0)
         + relevance_score(Tail(query_terms), content, node_query)

RECURSIVE InsertionOrder(_)

\* the context ids in the order the dict lists them: a key keeps the place
\* of its first assignment, and clock readings do not decrease
InsertionOrder(ids) ==
    IF ids = {}
    THEN <<>>
    ELSE LET first == CHOOSE m \in ids : \A n \in ids : m <= n
         IN  <<first>> \o InsertionOrder(ids \ {first})

RECURSIVE SortedByRelevance(_)

\* list.sort(key=relevance_score, reverse=True): stable, so contexts of one
\* score keep their order
SortedByRelevance(contexts) ==
    IF contexts = <<>>
    THEN <<>>
    ELSE LET x == contexts[Len(contexts)]
             sorted == SortedByRelevance(SubSeq(contexts, 1, Len(contexts) - 1))
             n == Cardinality({k \in 1..Len(sorted) :
                                  sorted[k].relevance_score >= x.relevance_score})
         IN  SubSeq(sorted, 1, n) \o <<x>> \o SubSeq(sorted, n + 1, Len(sorted))

\* retrieve_context on graph G
retrieve_context(G, query, user_id, max_results) ==
    LET query_terms == StrSplit(StrLower(query))
        order == InsertionOrder(DOMAIN G.nodes)
        scored == [k \in 1..Len(order) |->
                      [context_id |-> order[k],
                       query |-> G.nodes[order[k]].query,
                       content |-> G.nodes[order[k]].content,
                       user_id |-> G.nodes[order[k]].user_id,
                       relevance_score |->
                           relevance_score(query_terms,
                                           StrLower(G.nodes[order[k]].content),
                                           StrLower(G.nodes[order[k]].query))]]
        Relevant(c) == c.user_id = user_id /\ c.relevance_score > 0
        relevant_contexts == SortedByRelevance(SelectSeq(scored, Relevant))
    IN  [k \in 1..(IF Len(relevant_contexts) < max_results
                  THEN Len(relevant_contexts) ELSE max_results) |->
            [context_id |-> relevant_contexts[k].context_id,
             query |-> relevant_contexts[k].query,
             content |-> relevant_contexts[k].content,
             relevance_score |-> relevant_contexts[k].relevance_score]]

RetrieveQueries ==
    { <<"w", "i", "t", "h">>,
      <<"E", "x", "p", "e", "r", "i", "m", "e", "n", "t", " ", "d", "a", "t", "a">>,
      <<"T", "h", "e", " ", "E", "x", "p", "e", "r", "i", "m", "e", "n", "t">> }

RetrieveLimits == {1, 5}

call_retrieve_context(query, user_id, max_results) ==
    /\ last_retrieval' = [query |-> query, user_id |-> user_id, max_results |-> max_results,
                          returned |-> retrieve_context(memory_graph, query, user_id,
                                                        max_results)]
    /\ UNCHANGED <<memory_graph, store_calls, registry_vars, engine_vars, http_log>>

MemNext ==
    \/ \E query \in RetrieveQueries, user_id \in Users, max_results \in RetrieveLimits :
           call_retrieve_context(query, user_id, max_results)
    \/ \E query \in MemQueries, content \in MemContents, user_id \in Users :
           Len(store_calls) < MaxStores /\ call_store_context(query, content, user_id)
    \/ \E k \in 1..Len(store_calls), t \in Stamps(memory_graph.nodes) :
           \E concepts \in extract_concepts(store_calls[k].query, store_calls[k].content) :
               run_store_context(k, t, concepts)

MemSpec == Init /\ [][MemNext]_vars

(***************************************************************************)
(* store_context on texts long enough for the cut of _extract_concepts:    *)
(* a content of eleven distinct words that pass the test of line 137, with *)
(* stop-words, short words and a repeated word in other case among them.   *)
(***************************************************************************)
LongContent ==
    <<"D", "e", "e", "p", " ", "n", "e", "t", "s", " ", "l", "e", "a", "r", "n", " ",
      "f", "r", "o", "m", " ", "d", "a", "t", "a", " ", "w", "i", "t", "h", " ", "m",
      "a", "n", "y", " ", "l", "a", "y", "e", "r", "s", " ", "u", "s", "i", "n", "g",
      " ", "g", "r", "a", "d", "i", "e", "n", "t", " ", "d", "e", "s", "c", "e", "n",
      "t", " ", "a", "n", "d", " ", "t", "h", "e", " ", "l", "a", "r", "g", "e", " ",
      "D", "a", "t", "a", " ", "i", "s", " ", "b", "i", "g">>

ConceptQueries == { <<"N", "e", "t", "s">>, <<"o", "f">> }

ConceptNext ==
    \/ \E query \in ConceptQueries, content \in {<<>>, LongContent}, user_id \in Users :
           Len(store_calls) < MaxStores /\ call_store_context(query, content, user_id)
    \/ \E k \in 1..Len(store_calls), t \in Stamps(memory_graph.nodes) :
           \E concepts \in extract_concepts(store_calls[k].query, store_calls[k].content) :
               run_store_context(k, t, concepts)

ConceptSpec == Init /\ [][ConceptNext]_vars

(***************************************************************************)
(* JWTMiddleware: what it does with a request, by the scope type, the path *)
(* and the bearer token the request carries.                               *)
(***************************************************************************)
\* public_paths of _is_public_endpoint
public_paths ==
    << <<"/">>,
       <<"/", "h", "e", "a", "l", "t", "h">>,
       <<"/", "d", "o", "c", "s">>,
       <<"/", "r", "e", "d", "o", "c">>,
       <<"/", "o", "p", "e", "n", "a", "p", "i", ".", "j", "s", "o", "n">>,
       <<"/", "a", "p", "i", "/", "v", "1", "/", "r", "e", "s", "e", "a", "r", "c", "h", "/",
         "a", "n", "o", "n", "y", "m", "o", "u", "s">> >>

\* str.startswith
StartsWith(path, prefix) ==
    Len(prefix) <= Len(path) /\ SubSeq(path, 1, Len(prefix)) = prefix

is_public_endpoint(path) ==
    \E k \in 1..Len(public_paths) : StartsWith(path, public_paths[k])

\* the bearer token of a request: no Authorization header ("none"), an
\* access token that verifies ("valid"), one past its exp ("expired"), a
\* refresh token ("refresh"), or a string that is no token ("garbage")
BearerTokens == {"none", "valid", "expired", "refresh", "garbage"}

\* security(request) and JWTManager.verify_token(token): the exception they
\* raise ("" when the token verifies).  HTTPBearer raises HTTPException
\* without a header; jwt.decode raises JWTError, turned into HTTPException,
\* on an expired or malformed token; a token of another type gets
\* HTTPException at line 111.
verify_raises(token) == IF token = "valid" THEN "" ELSE "HTTPException"

\* __call__: whether the request goes on to self.app, and otherwise what
\* answers it.  JSONResponse is not imported in jwt_middleware.py, so line
\* 159 raises NameError.
JWTMiddleware_call(scope_type, path, token) ==
    IF scope_type # "http"
    THEN [forwarded |-> TRUE, answer |-> "app"]
    ELSE IF is_public_endpoint(path)
    THEN [forwarded |-> TRUE, answer |-> "app"]
    ELSE IF verify_raises(token) = ""
    THEN [forwarded |-> TRUE, answer |-> "app"]
    ELSE IF ~is_public_endpoint(path)
    THEN [forwarded |-> FALSE, answer |-> "NameError"]
    ELSE [forwarded |-> TRUE, answer |-> "app"]

RequestPaths ==
    {public_paths[k] : k \in 1..Len(public_paths)} \cup
    { <<"/", "a", "p", "i", "/", "v", "1", "/", "u", "s", "e", "r", "s", "/", "m", "e">>,
      <<"/", "a", "p", "i", "/", "v", "1", "/", "r", "e", "s", "e", "a", "r", "c", "h", "/",
        "q", "u", "e", "r", "y">>,
      <<"/", "h", "e", "a", "l", "t", "h", "z">> }

handle_request(scope_type, path, token) ==
    /\ Len(http_log) < MaxRequests
    /\ http_log' = Append(http_log,
                          [scope_type |-> scope_type, path |-> path, token |-> token,
                           did |-> JWTMiddleware_call(scope_type, path, token)])
    /\ UNCHANGED <<registry_vars, engine_vars, memory_vars>>

AuthNext ==
    \E scope_type \in {"http", "websocket"}, path \in RequestPaths, token \in BearerTokens :
        handle_request(scope_type, path, token)

AuthSpec == Init /\ [][AuthNext]_vars

(***************************************************************************)
(* The engine with its registry: plans come from the planner.              *)
(***************************************************************************)
Next ==
    \/ \E q \in Queries, u \in Users, id \in PlanIdSpace :
           Len(workflows) < MaxPlans /\ create_research_plan(q, u, id)
    \/ \E id \in PlanIdSpace, u \in Users, t \in Stamps(memory_nodes), b \in Behaviours :
           execute_research_plan(id, u, t, b)
    \/ \E r \in 1..Len(runs), t \in Stamps(memory_nodes), b \in Behaviours :
           tool_returns(r, t, b)
    \/ \E tool \in Tools : register_tool(tool, "None")
    \/ \E name \in ToolNames : unregister_tool(name)

Spec == Init /\ [][Next]_vars

(***************************************************************************)
(* The planner alone: one create_research_plan call on a query made of     *)
(* words in upper, lower and mixed case, with keywords standing alone,     *)
(* next to punctuation and inside longer words.                            *)
(***************************************************************************)
PlannerWords ==
    { <<"W", "h", "a", "t">>, <<"h", "o", "w">>, <<"W", "H", "Y">>,
      <<"w", "h", "e", "n">>, <<"W", "h", "e", "r", "e">>, <<"w", "h", "o">>,
      <<"s", "h", "o", "w">>, <<"w", "h", "a", "t", "?">>,
      <<"d", "o", "c", "u", "m", "e", "n", "t">>, <<"P", "a", "p", "e", "r">>,
      <<"a", "r", "t", "i", "c", "l", "e">>, <<"S", "T", "U", "D", "Y">>,
      <<"r", "e", "s", "e", "a", "r", "c", "h">>,
      <<"n", "e", "w", "s", "p", "a", "p", "e", "r">>,
      <<"i", "s">>, <<"h", "e", "l", "l", "o">> }

RECURSIVE JoinWords(_)

\* " ".join(words)
JoinWords(words) ==
    IF Len(words) = 1 THEN words[1]
    ELSE words[1] \o <<" ">> \o JoinWords(Tail(words))

PlannerQueries ==
    {JoinWords(ws) : ws \in UNION {[1..n -> PlannerWords] : n \in 1..MaxWords}}
        \cup {Q_quantum, Q_summarize}

PlanNext ==
    \E q \in PlannerQueries, u \in Users, id \in PlanIdSpace :
        workflows = <<>> /\ create_research_plan(q, u, id)

PlanSpec == Init /\ [][PlanNext]_vars

(***************************************************************************)
(* The executor alone, on any declaration order of the planner's steps:    *)
(* execute_research_plan takes workflow["steps"] as it finds it.           *)
(***************************************************************************)
PlannerSteps == {WebSearchStep, DocumentAnalysisStep, ContextRetrievalStep, SynthesisStep}

StepLists ==
    {L \in UNION {[1..n -> PlannerSteps] : n \in 1..Cardinality(PlannerSteps)} :
        \A j, k \in 1..Len(L) : L[j] = L[k] => j = k}

ExecInit ==
    /\ registry_tools \in {[n \in names |-> [name |-> n, version |-> "1.0.0"]] :
                             names \in SUBSET ToolNames}
    /\ tool_metadata = [n \in DOMAIN registry_tools |-> "{}"]
    /\ last_call = NoCall
    /\ memory_graph = EmptyGraph
    /\ store_calls = <<>>
    /\ last_retrieval = NoRetrieval
    /\ http_log = <<>>
    /\ \E L \in StepLists :
           workflows = <<[workflow_state("plan_0a1b2c3d", Q_both, "u1") EXCEPT !.steps = L]>>
    /\ active_workflows = ("plan_0a1b2c3d" :> 1)
    /\ runs = <<>>
    /\ memory_nodes = EmptyMap

ExecNext ==
    \/ \E id \in PlanIdSpace, u \in Users, t \in Stamps(memory_nodes), b \in Behaviours :
           execute_research_plan(id, u, t, b)
    \/ \E r \in 1..Len(runs), t \in Stamps(memory_nodes), b \in Behaviours :
           tool_returns(r, t, b)

ExecSpec == ExecInit /\ [][ExecNext]_vars

(***************************************************************************)
(* The executor alone, on step lists that hold a step of a type none of    *)
(* the branches of _execute_workflow_step names.                           *)
(***************************************************************************)
VerificationStep ==
    [id |-> "fact_check", type |-> "verification", depends_on |-> <<>>,
     tool_required |-> "fact_checker"]

TypedStepLists ==
    {L \in UNION {[1..n -> PlannerSteps \cup {VerificationStep}] : n \in 1..MaxSteps} :
        \A j, k \in 1..Len(L) : L[j] = L[k] => j = k}

TypesInit ==
    /\ registry_tools \in {[n \in names |-> [name |-> n, version |-> "1.0.0"]] :
                             names \in SUBSET ToolNames}
    /\ tool_metadata = [n \in DOMAIN registry_tools |-> "{}"]
    /\ last_call = NoCall
    /\ memory_graph = EmptyGraph
    /\ store_calls = <<>>
    /\ last_retrieval = NoRetrieval
    /\ http_log = <<>>
    /\ \E L \in TypedStepLists :
           workflows = <<[workflow_state("plan_0a1b2c3d", Q_both, "u1") EXCEPT !.steps = L]>>
    /\ active_workflows = ("plan_0a1b2c3d" :> 1)
    /\ runs = <<>>
    /\ memory_nodes = EmptyMap

TypesSpec == TypesInit /\ [][ExecNext]_vars

(***************************************************************************)
(* The engine after start-up (main.py has run discover_plugins on          *)
(* plugins.tools), serving several createPlan calls: the plan ids are      *)
(* draws of uuid4().hex[:8], and nothing keeps two draws apart.            *)
(***************************************************************************)
PlansInit ==
    /\ registry_tools = [n \in ToolNames |-> [name |-> n, version |-> "1.0.0"]]
    /\ tool_metadata = [n \in ToolNames |-> "{}"]
    /\ last_call = NoCall
    /\ workflows = <<>>
    /\ active_workflows = EmptyMap
    /\ runs = <<>>
    /\ memory_nodes = EmptyMap
    /\ memory_graph = EmptyGraph
    /\ store_calls = <<>>
    /\ last_retrieval = NoRetrieval
    /\ http_log = <<>>

PlansNext ==
    \/ \E q \in {Q_hello, Q_quantum}, u \in Users, id \in PlanIdSpace :
           Len(workflows) < MaxStored /\ create_research_plan(q, u, id)
    \/ \E id \in PlanIdSpace, u \in Users, t \in Stamps(memory_nodes), b \in {"ok", "raises"} :
           execute_research_plan(id, u, t, b)
    \/ \E r \in 1..Len(runs), t \in Stamps(memory_nodes), b \in {"ok", "raises"} :
           tool_returns(r, t, b)

PlansSpec == PlansInit /\ [][PlansNext]_vars

(***************************************************************************)
(* Vocabulary of the properties.                                           *)
(***************************************************************************)
StepIds(W) == {W.steps[k].id : k \in 1..Len(W.steps)}

StepTypes(W) == {W.steps[k].type : k \in 1..Len(W.steps)}

StepsOfType(W, type) == {k \in 1..Len(W.steps) : W.steps[k].type = type}

Deps(step) == {step.depends_on[k] : k \in 1..Len(step.depends_on)}

Terminal == {"completed", "failed", "error"}

\* the same letter, whatever the case
SameLetter(a, b) ==
    \/ a = b
    \/ \E k \in 1..Len(UpperCase) : {a, b} = {UpperCase[k], LowerCase[k]}

\* keyword occurs in text at some position, compared letter by letter
\* without regard to case
Occurs(keyword, text) ==
    \E at \in 1..Len(text) :
        /\ at + Len(keyword) - 1 <= Len(text)
        /\ \A j \in 1..Len(keyword) : SameLetter(text[at + j - 1], keyword[j])

Interrogatives ==
    { <<"w", "h", "a", "t">>, <<"h", "o", "w">>, <<"w", "h", "y">>,
      <<"w", "h", "e", "n">>, <<"w", "h", "e", "r", "e">>, <<"w", "h", "o">> }

DocumentTerms ==
    { <<"d", "o", "c", "u", "m", "e", "n", "t">>, <<"p", "a", "p", "e", "r">>,
      <<"a", "r", "t", "i", "c", "l", "e">>, <<"s", "t", "u", "d", "y">>,
      <<"r", "e", "s", "e", "a", "r", "c", "h">> }

\* the whitespace-delimited tokens of a text
TokenEnds(text) ==
    {k \in 1..Len(text) : text[k] # " " /\ (k = Len(text) \/ text[k + 1] = " ")}

TokenStart(text, end) ==
    CHOOSE b \in 1..end :
        /\ \A j \in b..end : text[j] # " "
        /\ (b = 1 \/ text[b - 1] = " ")

Tokens(text) == {SubSeq(text, TokenStart(text, e), e) : e \in TokenEnds(text)}

\* some token of text is the keyword, whatever the case
IsToken(keyword, text) ==
    \E tok \in Tokens(text) :
        /\ Len(tok) = Len(keyword)
        /\ \A j \in 1..Len(keyword) : SameLetter(tok[j], keyword[j])

(***************************************************************************)
(* C9, as the claim words it.  For every query, the plan built by          *)
(* createPlan has a retrieval and a synthesis step, has a search step iff  *)
(* some whitespace-delimited token of the query is one of what / how / why *)
(* / when / where / who (case-insensitive), and has an analysis step iff   *)
(* some token is one of document / paper / article / study / research;     *)
(* "What is quantum computing?" gives exactly {retrieval, search,          *)
(* synthesis}.                                                             *)
(***************************************************************************)
C9_StepsIffKeywordTokens ==
    \A o \in 1..Len(workflows) :
        LET W == workflows[o] IN
        /\ {"retrieval", "synthesis"} \subseteq StepTypes(W)
        /\ "search" \in StepTypes(W) <=> \E kw \in Interrogatives : IsToken(kw, W.query)
        /\ "analysis" \in StepTypes(W) <=> \E kw \in DocumentTerms : IsToken(kw, W.query)
        /\ W.query = Q_quantum => StepTypes(W) = {"retrieval", "search", "synthesis"}

(***************************************************************************)
(* C9, amended.  For every query, the plan built by createPlan has exactly *)
(* one retrieval and one synthesis step, has a search step iff one of      *)
(* what / how / why / when / where / who occurs anywhere in the query as a *)
(* substring, case-insensitively (so also inside a longer word, as in      *)
(* "show", or next to punctuation, as in "what?"), and has an analysis     *)
(* step iff one of document / paper / article / study / research occurs in *)
(* it the same way; "What is quantum computing?" gives exactly             *)
(* {retrieval, search, synthesis}.                                         *)
(***************************************************************************)
C9_StepsIffKeywordSubstrings ==
    \A o \in 1..Len(workflows) :
        LET W == workflows[o] IN
        /\ Cardinality(StepsOfType(W, "retrieval")) = 1
        /\ Cardinality(StepsOfType(W, "synthesis")) = 1
        /\ StepTypes(W) \subseteq {"search", "analysis", "retrieval", "synthesis"}
        /\ "search" \in StepTypes(W) <=> \E kw \in Interrogatives : Occurs(kw, W.query)
        /\ "analysis" \in StepTypes(W) <=> \E kw \in DocumentTerms : Occurs(kw, W.query)
        /\ W.query = Q_quantum => StepTypes(W) = {"retrieval", "search", "synthesis"}

\* a plan with a search step for a query in which an interrogative occurs
\* only inside a longer word, and one for a keyword in capitals
C9_Witness ==
    \E o \in 1..Len(workflows) :
        /\ workflows[o].query = <<"s", "h", "o", "w", " ", "S", "T", "U", "D", "Y">>
        /\ StepTypes(workflows[o]) = {"search", "analysis", "retrieval", "synthesis"}

(***************************************************************************)
(* C10.  In every plan built by createPlan the retrieval step has no       *)
(* dependencies, the synthesis step depends on exactly the other steps     *)
(* present in the plan, the analysis step depends on the search step       *)
(* exactly when a search step is present, and so every declared dependency *)
(* names a step of the same plan.                                          *)
(***************************************************************************)
C10_DependenciesNameStepsOfThePlan ==
    \A o \in 1..Len(workflows) :
        LET W == workflows[o] IN
        \A k \in 1..Len(W.steps) :
            LET step == W.steps[k] IN
            /\ step.type = "retrieval" => Deps(step) = {}
            /\ step.type = "synthesis" => Deps(step) = StepIds(W) \ {step.id}
            /\ step.type = "analysis" =>
                   \A j \in 1..Len(W.steps) :
                       W.steps[j].type = "search" <=> W.steps[j].id \in Deps(step)
            /\ step.type = "analysis" /\ StepsOfType(W, "search") = {} => Deps(step) = {}
            /\ Deps(step) \subseteq StepIds(W)

(***************************************************************************)
(* C1.  In every reachable state of every plan, a step whose recorded      *)
(* result is 'completed' has every one of its declared dependencies        *)
(* recorded 'completed' as well, the synthesis and retrieval steps and     *)
(* dependencies naming a step absent from the plan included.               *)
(***************************************************************************)
C1_CompletedOnlyAfterDependencies ==
    \A o \in 1..Len(workflows) :
        LET W == workflows[o] IN
        \A k \in 1..Len(W.steps) :
            ResultStatus(W, W.steps[k].id) = "completed" =>
                \A d \in Deps(W.steps[k]) : ResultStatus(W, d) = "completed"

(***************************************************************************)
(* C2.  A plan's status only moves planning -> executing -> {completed,    *)
(* failed, error}; once it is completed, failed or error, no later         *)
(* operation changes it.                                                   *)
(***************************************************************************)
StatusRank(status) ==
    IF status = "planning" THEN 0 ELSE IF status = "executing" THEN 1 ELSE 2

C2_TerminalStatusIsFinal ==
    [][\A o \in 1..Len(workflows) :
           /\ workflows[o].status \in Terminal =>
                  workflows'[o].status = workflows[o].status
           /\ StatusRank(workflows'[o].status) >= StatusRank(workflows[o].status)]_vars

(***************************************************************************)
(* C3.  Once a plan's status is terminal, its step list, its mapping from  *)
(* step id to StepResult and its error list are never modified again.      *)
(***************************************************************************)
C3_TerminalPlanIsImmutable ==
    [][\A o \in 1..Len(workflows) :
           workflows[o].status \in Terminal =>
               /\ workflows'[o].steps = workflows[o].steps
               /\ workflows'[o].results = workflows[o].results
               /\ workflows'[o].errors = workflows[o].errors]_vars

(***************************************************************************)
(* C6.  For every plan id at most one executePlan run is in flight at any  *)
(* time: a second call on the same plan never proceeds while the first is  *)
(* suspended awaiting a capability.                                        *)
(***************************************************************************)
InFlight(o) == {r \in 1..Len(runs) : runs[r].wf = o /\ runs[r].pc = "awaiting"}

C6_OneRunInFlightPerPlan ==
    \A o \in 1..Len(workflows) : Cardinality(InFlight(o)) <= 1

(***************************************************************************)
(* C7.  Every executePlan run reaches a terminal status even when the      *)
(* capability it invoked never returns: no run is ever left awaiting a     *)
(* call that nothing (no return, no raise, no timeout) will end.           *)
(***************************************************************************)
C7_NoRunAwaitsForever ==
    \A r \in 1..Len(runs) :
        runs[r].pc = "awaiting" =>
            ENABLED (\E t \in Stamps(memory_nodes), b \in Behaviours : tool_returns(r, t, b))

(***************************************************************************)
(* C8.  executePlan visits the steps in a topological order of the         *)
(* declared dependencies: for every acyclic step list, also one where a    *)
(* dependency is declared after its dependent, no step is visited before   *)
(* any of its dependencies that are present in the plan.                   *)
(***************************************************************************)
StepById(W, id) == W.steps[CHOOSE k \in 1..Len(W.steps) : W.steps[k].id = id]

IsAuthorizationError(x) ==
    /\ "raised" \in DOMAIN x
    /\ x.raised # ""
    /\ x.message = "Unauthorized access to workflow"

Owner(plan_id) == workflows[active_workflows[plan_id]].user_id

C4_NonOwnerGetsAuthorizationError ==
    \A plan_id \in DOMAIN active_workflows : \A u \in Users \ {Owner(plan_id)} :
        /\ IsAuthorizationError(execute_raises(plan_id, u))
        /\ IsAuthorizationError(get_workflow_status(plan_id, u))
        /\ IsAuthorizationError(get_workflow_results(plan_id, u))

(***************************************************************************)
(* C4, amended.  For every existing plan id and every caller other than    *)
(* the plan's owner, executePlan raises ValueError("Unauthorized access to *)
(* workflow") before it touches anything, while getStatus and getResults   *)
(* raise nothing and return None, as they do for an unknown plan id.  None *)
(* of the three changes the plan or the Memory Graph: every run that ever  *)
(* started was called by the owner of its plan, and every context node a   *)
(* run stored holds the query and the owner of one and the same plan.      *)
(***************************************************************************)
C4_NonOwnerIsRefusedWithoutEffect ==
    /\ \A plan_id \in DOMAIN active_workflows : \A u \in Users \ {Owner(plan_id)} :
           /\ execute_raises(plan_id, u) =
                  [raised |-> "ValueError", message |-> "Unauthorized access to workflow"]
           /\ get_workflow_status(plan_id, u) = None
           /\ get_workflow_results(plan_id, u) = None
           /\ get_workflow_status(plan_id, u) = get_workflow_status("plan_unknown", u)
    /\ \A r \in 1..Len(runs) : runs[r].user_id = workflows[runs[r].wf].user_id
    /\ \A n \in DOMAIN memory_nodes :
           \E o \in 1..Len(workflows) :
               /\ workflows[o].query = memory_nodes[n].query
               /\ workflows[o].user_id = memory_nodes[n].user_id

\* a plan that has run to completion and stored its context, its owner sees
\* its results, and the other user is refused
C4_Witness ==
    \E plan_id \in DOMAIN active_workflows : \E u \in Users \ {Owner(plan_id)} :
        /\ get_workflow_results(plan_id, Owner(plan_id)).kind = "results"
        /\ get_workflow_results(plan_id, Owner(plan_id)).status = "completed"
        /\ memory_nodes # EmptyMap
        /\ get_workflow_results(plan_id, u) = None
        /\ execute_raises(plan_id, u).raised = "ValueError"

(***************************************************************************)
(* C5.  When a run of executePlan reaches a search step whose capability   *)
(* is not registered, then at the end of that segment of the run the       *)
(* search step's result is 'error', the plan's status is 'failed' or       *)
(* 'error', the plan's error list has at least one entry, the run is over, *)
(* and the run has neither visited nor recorded a result for any step      *)
(* declared after the search step.                                         *)
(***************************************************************************)
Range(seq) == {seq[k] : k \in 1..Len(seq)}

C5_MissingSearchCapabilityHalts ==
    [][\A r \in 1..Len(runs') :
           LET R == runs'[r]
               W == workflows'[R.wf]
               before == IF r <= Len(runs) THEN runs[r].absent ELSE {}
           IN  \A k \in 1..Len(W.steps) :
                   (W.steps[k].type = "search" /\ W.steps[k].id \in R.absent \ before) =>
                       /\ ResultStatus(W, W.steps[k].id) = "error"
                       /\ W.status \in {"failed", "error"}
                       /\ Len(W.errors) >= 1
                       /\ R.pc = "done"
                       /\ \A j \in (k + 1)..Len(W.steps) :
                              W.steps[j].id \notin Range(R.visited) \cup Range(R.written)]_vars

\* a run that found web_search unregistered, is over, and left its plan failed
\* with steps after the search step that it never reached
C5_Witness ==
    \E r \in 1..Len(runs) :
        /\ runs[r].pc = "done"
        /\ "web_search" \in runs[r].absent
        /\ workflows[runs[r].wf].status = "failed"
        /\ ResultStatus(workflows[runs[r].wf], "web_search") = "error"
        /\ Len(workflows[runs[r].wf].steps) > Len(runs[r].visited)

(***************************************************************************)
(* C11.  Whenever a run of executePlan comes to its end having visited     *)
(* every step of the plan with no fatal step (no step whose result it      *)
(* recorded as 'error'), the plan's status is 'completed' at that moment   *)
(* and the Memory Graph then holds a context node stored in that very      *)
(* step, owned by the plan's owner, with the plan's query and the          *)
(* synthesis payload.                                                      *)
(***************************************************************************)
\* run r returns in this step
RunEnds(r) ==
    /\ runs'[r].pc = "done"
    /\ r <= Len(runs) => runs[r].pc = "awaiting"

\* run r, at its return, has visited every step and recorded no 'error': a
\* step recorded as 'error' ends the run, so it is the last one recorded
VisitedAllWithoutFatalStep(r) ==
    LET R == runs'[r]
        W == workflows'[R.wf]
    IN  /\ Range(R.visited) = StepIds(W)
        /\ R.written = R.visited
        /\ W.results[R.written[Len(R.written)]].status # "error"

C11_CompletedRunStoresContext ==
    [][\A r \in 1..Len(runs') :
           (RunEnds(r) /\ VisitedAllWithoutFatalStep(r)) =>
               LET W == workflows'[runs'[r].wf]
               IN  /\ W.status = "completed"
                   /\ \E n \in DOMAIN memory_nodes' \cap Stamps(memory_nodes) :
                          /\ memory_nodes'[n].type = "research_context"
                          /\ memory_nodes'[n].user_id = W.user_id
                          /\ memory_nodes'[n].query = W.query
                          /\ memory_nodes'[n].content = W.results["synthesis"].sources]_vars

(***************************************************************************)
(* C12.  createPlan stores the new plan with status 'planning', an empty   *)
(* mapping of step results and an empty error list, and executes nothing:  *)
(* it starts no run and invokes no capability, and it leaves the Memory    *)
(* Graph, the Registry and every plan created before as they were, each    *)
(* still stored under its id.                                              *)
(***************************************************************************)
\* a createPlan call happens in this step
PlanCreated == Len(workflows') = Len(workflows) + 1

C12_CreateOnlyStoresTheNewPlan ==
    [][PlanCreated =>
           LET W == workflows'[Len(workflows')]
           IN  /\ W.status = "planning"
               /\ W.results = EmptyMap
               /\ W.errors = <<>>
               /\ active_workflows'[W.plan_id] = Len(workflows')
               /\ runs' = runs
               /\ memory_nodes' = memory_nodes
               /\ registry_tools' = registry_tools
               /\ \A o \in 1..Len(workflows) : workflows'[o] = workflows[o]
               /\ \A id \in DOMAIN active_workflows :
                      /\ id \in DOMAIN active_workflows'
                      /\ active_workflows'[id] = active_workflows[id]]_vars

(***************************************************************************)
(* C13.  Plan ids are unique: the id createPlan returns is never the id of *)
(* a plan already stored, so that every plan ever created stays the plan   *)
(* stored under its own id.                                                *)
(***************************************************************************)
C13_PlanIdsAreUnique ==
    /\ \A o \in 1..Len(workflows) :
           /\ workflows[o].plan_id \in DOMAIN active_workflows
           /\ active_workflows[workflows[o].plan_id] = o
    /\ \A o, p \in 1..Len(workflows) : workflows[o].plan_id = workflows[p].plan_id => o = p

(***************************************************************************)
(* C14.  For a plan in a terminal status, two getStatus calls by the owner *)
(* return identical output: one made before and one made after any step,   *)
(* both finding the plan in a terminal status, give the same answer.       *)
(***************************************************************************)
C14_StatusOfTerminalPlanIsStable ==
    [][\A id \in DOMAIN active_workflows :
           LET o == active_workflows[id]
           IN  (/\ workflows[o].status \in Terminal
                /\ id \in DOMAIN active_workflows'
                /\ active_workflows'[id] = o
                /\ workflows'[o].status \in Terminal) =>
                   get_workflow_status(id, workflows[o].user_id)' =
                       get_workflow_status(id, workflows[o].user_id)]_vars

(***************************************************************************)
(* C15, as the claim words it.  register never raises, whatever it is      *)
(* given, and after a register call get(name) returns the object of that   *)
(* call.                                                                   *)
(***************************************************************************)
C15_RegisterNeverRaises ==
    [][last_call'.op = "register" =>
           /\ last_call'.raised = ""
           /\ get_tool(registry_tools', last_call'.arg.name) = last_call'.arg]_vars

(***************************************************************************)
(* C15, amended.  register raises TypeError, and leaves the registry as it *)
(* was, when its argument is not a capability (not a ToolInterface         *)
(* instance).  For a capability it never raises: it stores the capability  *)
(* and the metadata (an empty mapping when none is given) under the        *)
(* capability's name, warns exactly when the name was registered already,  *)
(* replaces the earlier entry in that case (last write wins), and leaves   *)
(* the entries of all other names alone, so that get(name) returns the     *)
(* capability of the most recent register call for that name.              *)
(***************************************************************************)
C15_RegisterRejectsOnlyNonCapabilities ==
    [][last_call'.op = "register" =>
           LET obj == last_call'.arg
           IN  IF obj \in AllTools
               THEN /\ last_call'.raised = ""
                    /\ get_tool(registry_tools', obj.name) = obj
                    /\ tool_metadata'[obj.name] =
                           (IF last_call'.metadata = "None" THEN "{}" ELSE last_call'.metadata)
                    /\ last_call'.warned <=> obj.name \in DOMAIN registry_tools
                    /\ DOMAIN registry_tools' = DOMAIN registry_tools \cup {obj.name}
                    /\ \A n \in DOMAIN registry_tools \ {obj.name} :
                           /\ registry_tools'[n] = registry_tools[n]
                           /\ tool_metadata'[n] = tool_metadata[n]
               ELSE /\ last_call'.raised = "TypeError"
                    /\ registry_tools' = registry_tools
                    /\ tool_metadata' = tool_metadata]_vars

\* the last call registered another web_search over one registered before
C15_Witness ==
    /\ last_call.op = "register"
    /\ last_call.arg = WebSearchTool2
    /\ last_call.warned
    /\ last_call.raised = ""
    /\ get_tool(registry_tools, "web_search") = WebSearchTool2
    /\ "document_ingestion" \in list_tools(registry_tools)

(***************************************************************************)
(* C16.  After any sequence of register, unregister, clear and discover    *)
(* calls, every name in list() resolves through get(name) to a capability  *)
(* whose own name is that name, and get(name) is absent for every name     *)
(* that is not in list().                                                  *)
(***************************************************************************)
C16_ListedNamesResolveToTheirCapability ==
    /\ \A name \in list_tools(registry_tools) :
           /\ get_tool(registry_tools, name) \in AllTools
           /\ get_tool(registry_tools, name).name = name
    /\ \A name \in (RegisteredNames \cup {"1.0.0", "2.0.0", "unknown"}) \ list_tools(registry_tools) :
           get_tool(registry_tools, name) = [name |-> "None"]

\* one of several registered capabilities has just been unregistered
C16_Witness ==
    /\ last_call.op = "unregister"
    /\ last_call.returned = "True"
    /\ last_call.arg.name \notin list_tools(registry_tools)
    /\ get_tool(registry_tools, last_call.arg.name) = [name |-> "None"]
    /\ Cardinality(list_tools(registry_tools)) >= 2

(***************************************************************************)
(* C17.  discover raises nothing and never stops early: a candidate whose  *)
(* module fails to import or whose constructor raises is skipped, and      *)
(* every other candidate that constructs is registered when discover       *)
(* returns (under its name, where the last one of a name stays).           *)
(***************************************************************************)
RECURSIVE CandidatesOf(_)

\* the candidate providers of a module list, in order: the classes of the
\* modules that are not excluded and that import
CandidatesOf(modules) ==
    IF modules = <<>>
    THEN <<>>
    ELSE (IF Head(modules).imports /\ ~excluded(Head(modules).name, DefaultExcludePatterns)
          THEN Head(modules).classes ELSE <<>>) \o CandidatesOf(Tail(modules))

C18_NoPartialRegistrationVisible ==
    /\ DOMAIN tool_metadata = DOMAIN registry_tools
    /\ last_call.op = "register" /\ last_call.raised = "" =>
           last_call.arg.name \in DOMAIN registry_tools \cap DOMAIN tool_metadata
    /\ last_call.op = "discover" =>
           LET cs == CandidatesOf(last_call.arg.modules)
           IN  \A k \in 1..Len(cs) :
                   cs[k].constructs =>
                       cs[k].tool.name \in DOMAIN registry_tools \cap DOMAIN tool_metadata

\* a discover call has registered two capabilities at once
C18_Witness ==
    /\ last_call.op = "discover"
    /\ LET cs == CandidatesOf(last_call.arg.modules)
       IN  /\ Cardinality({cs[k].tool.name : k \in {j \in 1..Len(cs) : cs[j].constructs}}) = 2
           /\ \A k \in 1..Len(cs) : cs[k].constructs
           /\ DOMAIN registry_tools = {cs[k].tool.name : k \in 1..Len(cs)}
           /\ DOMAIN tool_metadata = DOMAIN registry_tools

\* the store_context calls that have run
DoneCalls == {k \in 1..Len(store_calls) : store_calls[k].pc = "done"}

\* the calls that have run and whose extracted concepts held the concept
CallsMentioning(concept) == {k \in DoneCalls : concept \in store_calls[k].concepts}

Experiment == <<"e", "x", "p", "e", "r", "i", "m", "e", "n", "t">>

\* C19: whatever store_context calls have run, each concept node's
\* frequency is the number of those calls, of any owner, whose extracted
\* concept set held the concept, and every concept so extracted has its
\* node; so two calls of two owners that both mention "experiment" leave
\* its frequency at 2.
C19_FrequencyCountsCallsOfAllOwners ==
    /\ \A id \in DOMAIN memory_graph.concepts :
           memory_graph.concepts[id].frequency =
               Cardinality(CallsMentioning(memory_graph.concepts[id].name))
    /\ \A k \in DoneCalls : \A concept \in store_calls[k].concepts :
           /\ concept_id(concept) \in DOMAIN memory_graph.concepts
           /\ memory_graph.concepts[concept_id(concept)].name = concept

C19_Witness ==
    \E j, k \in DoneCalls :
        /\ store_calls[j].user_id # store_calls[k].user_id
        /\ Experiment \in store_calls[j].concepts
        /\ Experiment \in store_calls[k].concepts
        /\ memory_graph.concepts[concept_id(Experiment)].frequency = 2

\* the step in which the pending call k runs
Runs(k) ==
    /\ k \in 1..Len(store_calls)
    /\ store_calls[k].pc = "pending"
    /\ Len(store_calls') = Len(store_calls)
    /\ store_calls'[k].pc = "done"

NodesNamed(G, concept) == {id \in DOMAIN G.concepts : G.concepts[id].name = concept}

\* C20: whenever one of the store_context calls in flight runs, in whatever
\* order they run, each concept it references has exactly one node
\* afterwards, whose frequency is 1 if the node is new and one more than
\* before otherwise, and no other concept node changes; so N calls in
\* flight together that reference one concept make its frequency grow by N.
C20_EachCallInFlightCountsOnce ==
    [][\A k \in 1..Len(store_calls) : Runs(k) =>
          /\ \A concept \in store_calls'[k].concepts :
                /\ NodesNamed(memory_graph', concept) = {concept_id(concept)}
                /\ memory_graph'.concepts[concept_id(concept)].frequency =
                       IF concept_id(concept) \in DOMAIN memory_graph.concepts
                       THEN memory_graph.concepts[concept_id(concept)].frequency + 1
                       ELSE 1
          /\ \A id \in DOMAIN memory_graph.concepts :
                /\ id \in DOMAIN memory_graph'.concepts
                /\ memory_graph.concepts[id].name \notin store_calls'[k].concepts
                       => memory_graph'.concepts[id] = memory_graph.concepts[id]
          /\ \A id \in DOMAIN memory_graph'.concepts :
                id \in DOMAIN memory_graph.concepts
                    \/ memory_graph'.concepts[id].name \in store_calls'[k].concepts]_vars

\* two calls in flight together, run in the reverse of the order of their
\* making, both referencing "experiment"
C20_Witness ==
    \E j, k \in DoneCalls :
        /\ j < k
        /\ store_calls[k].order < store_calls[j].order
        /\ Experiment \in store_calls[j].concepts
        /\ Experiment \in store_calls[k].concepts
        /\ NodesNamed(memory_graph, Experiment) = {concept_id(Experiment)}
        /\ memory_graph.concepts[concept_id(Experiment)].frequency = 2

\* C21: a store_context call keeps every context node, concept node and
\* edge there was, with the contents it had, but for the frequency of a
\* concept node, which may have grown; and the context node it makes is under
\* an id no node had.
C21_GraphIsAppendOnly ==
    [][/\ \A t \in DOMAIN memory_graph.nodes :
              /\ t \in DOMAIN memory_graph'.nodes
              /\ memory_graph'.nodes[t] = memory_graph.nodes[t]
       /\ \A id \in DOMAIN memory_graph.concepts :
              /\ id \in DOMAIN memory_graph'.concepts
              /\ memory_graph'.concepts[id].frequency >= memory_graph.concepts[id].frequency
              /\ [memory_graph'.concepts[id] EXCEPT !.frequency = 0] =
                     [memory_graph.concepts[id] EXCEPT !.frequency = 0]
       /\ \A e \in DOMAIN memory_graph.edges :
              /\ e \in DOMAIN memory_graph'.edges
              /\ memory_graph'.edges[e] = memory_graph.edges[e]
       /\ \A k \in 1..Len(store_calls) :
              Runs(k) => store_calls'[k].context_id \notin DOMAIN memory_graph.nodes]_vars

\* the query tokens as store_context takes them: lower-cased, split on
\* whitespace, without the tokens of length <= 3 and the stop-words
ReferenceTokens(query) == {w \in Range(StrSplit(StrLower(query))) : IsConceptWord(w)}

\* 1 per token that is a substring of the content, 2 per token that is a
\* substring of the stored query
ReferenceScore(G, query, t) ==
    Cardinality({w \in ReferenceTokens(query) : StrIn(w, StrLower(G.nodes[t].content))})
    + 2 * Cardinality({w \in ReferenceTokens(query) : StrIn(w, StrLower(G.nodes[t].query))})

\* returned is the reference result of the retrieval on graph G
IsReferenceResult(G, query, user_id, max_results, returned) ==
    LET Eligible == {t \in DOMAIN G.nodes :
                        G.nodes[t].user_id = user_id /\ ReferenceScore(G, query, t) > 0}
        Before(a, b) == \/ ReferenceScore(G, query, a) > ReferenceScore(G, query, b)
                        \/ ReferenceScore(G, query, a) = ReferenceScore(G, query, b) /\ a < b
    IN  /\ Len(returned) = IF Cardinality(Eligible) < max_results
                           THEN Cardinality(Eligible) ELSE max_results
        /\ \A k \in 1..Len(returned) :
               /\ returned[k].context_id \in Eligible
               /\ returned[k].relevance_score =
                      ReferenceScore(G, query, returned[k].context_id)
               /\ returned[k].query = G.nodes[returned[k].context_id].query
               /\ returned[k].content = G.nodes[returned[k].context_id].content
               /\ Cardinality({e \in Eligible : Before(e, returned[k].context_id)}) = k - 1

\* the step is a retrieve_context call
Retrieves == last_retrieval' # last_retrieval

\* C22: every retrieve_context call returns the reference result: the
\* caller's context nodes scored over the query tokens taken as in
\* store_context (1 per token in the content, 2 per token in the stored
\* query), without those scoring 0, by descending score with ties in storage
\* order, at most max_results of them.
C22_RetrieveReturnsTheReferenceResult ==
    [][Retrieves =>
          IsReferenceResult(memory_graph, last_retrieval'.query, last_retrieval'.user_id,
                            last_retrieval'.max_results, last_retrieval'.returned)]_vars

\* the caller's context nodes that match the query
Matching(G, query, user_id) ==
    {t \in DOMAIN G.nodes : G.nodes[t].user_id = user_id /\ ReferenceScore(G, query, t) > 0}

\* C23: once store_context(q, data, u) has run for a query q with at least
\* one token, and whatever store_context calls have run since, a
\* retrieve_context(q, u, k) with k at least the number of u's matching
\* contexts returns the stored context, with a score above 0.
C23_StoredContextIsRetrieved ==
    [][Retrieves =>
          \A j \in DoneCalls :
              ( /\ store_calls[j].user_id = last_retrieval'.user_id
                /\ store_calls[j].query = last_retrieval'.query
                /\ ReferenceTokens(last_retrieval'.query) # {}
                /\ last_retrieval'.max_results >=
                       Cardinality(Matching(memory_graph, last_retrieval'.query,
                                            last_retrieval'.user_id)) )
              => \E k \in 1..Len(last_retrieval'.returned) :
                     /\ last_retrieval'.returned[k].context_id = store_calls[j].context_id
                     /\ last_retrieval'.returned[k].query = store_calls[j].query
                     /\ last_retrieval'.returned[k].content = store_calls[j].content
                     /\ last_retrieval'.returned[k].relevance_score > 0]_vars

RECURSIVE GraphOfOwner(_, _)

\* the graph of the run in which, of the first n calls that ran, only those
\* of user_id were made, with the clock readings and the concepts they had
GraphOfOwner(user_id, n) ==
    IF n = 0
    THEN EmptyGraph
    ELSE LET k == CHOOSE j \in DoneCalls : store_calls[j].order = n
         IN  IF store_calls[k].user_id = user_id
             THEN store_context_in(GraphOfOwner(user_id, n - 1), store_calls[k].query,
                                   [content |-> store_calls[k].content], user_id,
                                   store_calls[k].context_id, store_calls[k].concepts)
             ELSE GraphOfOwner(user_id, n - 1)

\* C24: a retrieve_context call of owner A returns only context nodes owned
\* by A, and returns what it returns in the run that differs by the other
\* owners having made no store_context call.
C24_RetrievalIsIsolatedByOwner ==
    [][Retrieves =>
          /\ \A k \in 1..Len(last_retrieval'.returned) :
                /\ last_retrieval'.returned[k].context_id \in DOMAIN memory_graph.nodes
                /\ memory_graph.nodes[last_retrieval'.returned[k].context_id].user_id =
                       last_retrieval'.user_id
          /\ last_retrieval'.returned =
                 retrieve_context(GraphOfOwner(last_retrieval'.user_id,
                                               Cardinality(DoneCalls)),
                                  last_retrieval'.query, last_retrieval'.user_id,
                                  last_retrieval'.max_results)]_vars

\* the place of the step called id in the step list of plan W
StepIndex(W, id) == CHOOSE k \in 1..Len(W.steps) : W.steps[k].id = id

\* run r recorded an 'error' result for the step called id
RecordedError(r, id) ==
    \E k \in 1..Len(runs[r].written) :
        runs[r].written[k] = id /\ runs[r].statuses[k] = "error"

\* C25: whenever a run visits a step, of any type, while some dependency
\* of the step has no 'completed' result, the run records the step as
\* 'skipped', appends no entry for it to the plan's error list, does not
\* call the step's capability, and goes on to visit the next step.
C25_UnmetDependencySkipsTheStep ==
    \A r \in 1..Len(runs) :
        LET R == runs[r]
            W == workflows[R.wf]
        IN  /\ R.unmet \cap R.called = {}
            /\ \A k \in 1..Len(R.visited) :
                   R.visited[k] \in R.unmet =>
                       /\ k <= Len(R.written)
                       /\ R.written[k] = R.visited[k]
                       /\ R.statuses[k] = "skipped"
                       /\ StepIndex(W, R.visited[k]) < Len(W.steps) => Len(R.visited) > k
                       /\ \A e \in 1..Len(W.errors) :
                              W.errors[e][1] = R.visited[k] =>
                                  \E r2 \in 1..Len(runs) :
                                      runs[r2].wf = R.wf /\ RecordedError(r2, R.visited[k])

\* run r moves in the step
Moves(r) == r > Len(runs) \/ Len(runs'[r].written) # Len(runs[r].written)

\* the steps at which run r meets a fault in the step: the one whose
\* capability raises now, and the ones of unknown type it reaches now
Faulted(r) ==
    LET W == workflows'[runs'[r].wf]
        seen == IF r <= Len(runs) THEN Len(runs[r].visited) ELSE 0
    IN  {W.steps[k].id : k \in {j \in 1..Len(W.steps) :
            /\ r <= Len(runs)
            /\ runs[r].pc = "awaiting"
            /\ runs[r].behaviour = "raises"
            /\ runs[r].i = j}}
        \cup {runs'[r].visited[k] : k \in {j \in (seen + 1)..Len(runs'[r].visited) :
                 W.steps[StepIndex(W, runs'[r].visited[j])].type
                     \notin {"search", "analysis", "retrieval", "synthesis"}}}

FaultDetail(W, id) ==
    IF W.steps[StepIndex(W, id)].type \in {"search", "analysis"}
    THEN "Step execution failed" ELSE "Unknown step type"

\* C26: whenever, in a run, a step's capability raises or a step of unknown
\* type is reached, then as the run stops the step's result is 'error' with
\* the detail of the fault, the plan's error list has gained an entry naming
\* the step, the plan's status is 'failed', and the run is over with that
\* step the last it visited.
C26_StepFaultsFailFast ==
    [][\A r \in 1..Len(runs') :
           Moves(r) =>
               \A id \in Faulted(r) :
                   LET R == runs'[r]
                       W == workflows'[R.wf]
                   IN  /\ ResultStatus(W, id) = "error"
                       /\ W.results[id].detail = FaultDetail(W, id)
                       /\ \E e \in (Len(workflows[R.wf].errors) + 1)..Len(W.errors) :
                              W.errors[e] = <<id, FaultDetail(W, id)>>
                       /\ W.status = "failed"
                       /\ R.pc = "done"
                       /\ R.visited[Len(R.visited)] = id
                       /\ R.written[Len(R.written)] = id]_vars

\* one run stopped by its capability raising, another by a step of unknown
\* type, each with later steps left unvisited
C26_Witness ==
    \E r1, r2 \in 1..Len(runs) :
        LET W == workflows[runs[r1].wf]
        IN  /\ runs[r1].pc = "done" /\ runs[r2].pc = "done"
            /\ runs[r1].called # {}
            /\ runs[r1].statuses[Len(runs[r1].statuses)] = "error"
            /\ runs[r1].written[Len(runs[r1].written)] \in runs[r1].called
            /\ runs[r2].written[Len(runs[r2].written)] = "fact_check"
            /\ runs[r2].statuses[Len(runs[r2].statuses)] = "error"
            /\ Len(runs[r1].visited) < Len(W.steps)
            /\ Len(runs[r2].visited) < Len(W.steps)
            /\ W.status = "failed"
            /\ Len(W.errors) = 2

\* the lower-cased whitespace-delimited tokens of the query and of the
\* content that are longer than 3 characters and no stop-words
ConceptTokens(query, content) ==
    {w \in Tokens(StrLower(query)) \cup Tokens(StrLower(content)) :
        Len(w) > 3 /\ w \notin StopWords}

\* C27: the concepts a store_context call connects are distinct lower-cased
\* whitespace-delimited tokens of the query and the content, each longer
\* than 3 characters and no stop-word, all of them when they are at most 10
\* and 10 of them otherwise; for each the call makes exactly one 'mentions'
\* edge of weight 1.0 from its context node to the concept's node, it makes
\* no other edge, and a concept node it creates has frequency 1.
C27_ConnectsTheExtractedConcepts ==
    [][\A k \in 1..Len(store_calls) : Runs(k) =>
          LET call == store_calls'[k]
              tokens == ConceptTokens(call.query, call.content)
              ids == {concept_id(c) : c \in call.concepts}
          IN  /\ call.concepts \subseteq tokens
              /\ Cardinality(call.concepts) =
                     IF Cardinality(tokens) > 10 THEN 10 ELSE Cardinality(tokens)
              /\ Cardinality(ids) = Cardinality(call.concepts)
              /\ \A c \in call.concepts :
                     /\ concept_id(c) \in DOMAIN memory_graph'.concepts
                     /\ memory_graph'.concepts[concept_id(c)].name = c
                     /\ concept_id(c) \notin DOMAIN memory_graph.concepts
                            => memory_graph'.concepts[concept_id(c)].frequency = 1
                     /\ Cardinality({e \in DOMAIN memory_graph'.edges :
                                        /\ memory_graph'.edges[e].source = call.context_id
                                        /\ memory_graph'.edges[e].target = concept_id(c)
                                        /\ memory_graph'.edges[e].type = "mentions"
                                        /\ memory_graph'.edges[e].weight = 1}) = 1
              /\ \A e \in DOMAIN memory_graph'.edges :
                     (e \notin DOMAIN memory_graph.edges
                         \/ memory_graph'.edges[e] # memory_graph.edges[e])
                     => /\ memory_graph'.edges[e].source = call.context_id
                        /\ memory_graph'.edges[e].target \in ids]_vars

\* a call has run on a text of more than ten concept tokens and connected
\* ten of them, and a call on a text of one token has connected that one
C27_Witness ==
    \E j, k \in DoneCalls :
        /\ Cardinality(ConceptTokens(store_calls[j].query, store_calls[j].content)) > 10
        /\ Cardinality(store_calls[j].concepts) = 10
        /\ Cardinality({e \in DOMAIN memory_graph.edges :
                           memory_graph.edges[e].source = store_calls[j].context_id}) >= 10
        /\ store_calls[k].concepts = {<<"n", "e", "t", "s">>}
        /\ store_calls[k].context_id # store_calls[j].context_id

\* C28: whatever store_context calls have run, the frequency of every
\* concept node is the number of 'mentions' edges whose target it is, and
\* the source and the target of every edge are ids of nodes of the graph.
C28_FrequencyIsTheNumberOfMentions ==
    /\ \A id \in DOMAIN memory_graph.concepts :
           memory_graph.concepts[id].frequency =
               Cardinality({e \in DOMAIN memory_graph.edges :
                               /\ memory_graph.edges[e].type = "mentions"
                               /\ memory_graph.edges[e].target = id})
    /\ \A e \in DOMAIN memory_graph.edges :
           /\ memory_graph.edges[e].source \in DOMAIN memory_graph.nodes
           /\ memory_graph.edges[e].target \in DOMAIN memory_graph.concepts

\* C29: after any createPlan, executePlan, register and unregister
\* operations, a plan whose status is 'completed' has an empty error list and
\* no step result of status 'error', and a plan whose status is 'failed' has
\* a step result of status 'error' and no result for any step declared after
\* that step.
C29_StatusAgreesWithResults ==
    \A o \in 1..Len(workflows) :
        LET W == workflows[o]
        IN  /\ W.status = "completed" =>
                   /\ W.errors = <<>>
                   /\ \A id \in DOMAIN W.results : W.results[id].status # "error"
            /\ W.status = "failed" =>
                   \E k \in 1..Len(W.steps) :
                       /\ ResultStatus(W, W.steps[k].id) = "error"
                       /\ \A j \in (k + 1)..Len(W.steps) :
                              W.steps[j].id \notin DOMAIN W.results

\* the endpoints listed as public
PublicEndpoints == {public_paths[k] : k \in 1..Len(public_paths)}

\* C30: JWTMiddleware forwards an HTTP request that carries no valid access
\* token to the application only when its path is one of the public
\* endpoints; a request to any other path without a valid token, such as
\* /api/v1/users/me, is answered 401 and does not reach the application.
C30_OnlyPublicEndpointsPassWithoutToken ==
    \A k \in 1..Len(http_log) :
        (http_log[k].scope_type = "http" /\ http_log[k].token # "valid") =>
            /\ http_log[k].did.forwarded => http_log[k].path \in PublicEndpoints
            /\ http_log[k].path \notin PublicEndpoints =>
                   ~http_log[k].did.forwarded /\ http_log[k].did.answer = "401"

================================================================
